---- MODULE Spec2Model ----
(***************************************************************************)
(* The interactive spiral piano of src/v25.py (InteractiveSpiralPiano):    *)
(* the per-key highlight state, the decay scheduler driven by one master   *)
(* tick, and the manual-blitting background cache.                         *)
(*                                                                         *)
(* Time is the value of time.time(), counted in clock steps; the fade      *)
(* duration of 0.5 s is 2*HalfSteps steps.  Floats in [0,1] (alpha, the    *)
(* radial factor, progress) are exact fractions with denominator One, so   *)
(* One stands for 1.0 and decay_end_factor for 0.5.                        *)
(***************************************************************************)
EXTENDS Integers, Sequences, FiniteSets, TLC

VARIABLES notes_data, active_notes_list, active_decay_animations,
          enable_animation, background, title, status_text, now, last,
          peak, streak, other, ticked, v11, pc, v20

vars == <<notes_data, active_notes_list, active_decay_animations,
          enable_animation, background, title, status_text, now, last,
          peak, streak, other, ticked, v11, pc, v20>>

---------------------------------------------------------------------------
(* Bounds *)

\* number of keys of the registry that the model keeps
NumKeys == 2
\* clock steps in half the fade duration (0.25 s)
HalfSteps == 1
\* the clock stops advancing here
MaxTime == 3
\* pointer radii come in steps of 1/RadiusSteps
RadiusSteps == 4
\* pointer radii reach this far beyond the outermost octave bound
BeyondRim == 1
\* pointer angles come in steps of 1/AngleSteps of a semitone sector
AngleSteps == 2
\* the longest active_notes_list handed to the status display
MaxListed == 2
\* the most FuncAnimation objects the per-key-timer revision creates
MaxStarted == 3

---------------------------------------------------------------------------
(* Program constants *)

n_rotations == 5

semitone_names ==
  <<"C", "C#", "D", "D#", "E", "F", "F#", "G", "G#", "A", "A#", "B">>

\* duration = 0.5 (seconds), in clock steps
duration == 2 * HalfSteps

\* the fraction 1.0
One == 2 * duration

\* decay_end_factor = 0.5
decay_end_factor == One \div 2

\* Python's None; an optional value is None or a one-element tuple
None == <<>>

\* keys of the registry kept by the model: C3, E3, D#3, D3
KeyPool == << <<2, 0>>, <<2, 4>>, <<2, 3>>, <<2, 2>> >>

Keys == {KeyPool[i] : i \in 1..NumKeys}

\* notes_data is filled octave by octave, semitone by semitone; a dict
\* iterates in insertion order
KeyBefore(a, c) == a[1] < c[1] \/ (a[1] = c[1] /\ a[2] < c[2])

KeyOrder ==
  CHOOSE s \in [1..Cardinality(Keys) -> Keys] :
    \A i, j \in 1..Cardinality(Keys) : i < j => KeyBefore(s[i], s[j])

\* the octave number is the octave index itself
NameWithoutOctaveShift(octave_idx, semitone_idx) ==
  <<semitone_names[semitone_idx + 1], octave_idx>>

_get_note_name(octave_idx, semitone_idx) ==
  <<semitone_names[semitone_idx + 1], octave_idx + 1>>

NameOf(k) == _get_note_name(k[1], k[2])

---------------------------------------------------------------------------
(* The object: self is the record of the instance's fields *)

Self ==
  [notes_data |-> notes_data,
   active_notes_list |-> active_notes_list,
   active_decay_animations |-> active_decay_animations,
   enable_animation |-> enable_animation,
   background |-> background,
   title |-> title,
   status_text |-> status_text,
   peak |-> peak]

\* a line created by _draw_notes_segments: alpha 0.0, invisible, ydata base_r
NewNote ==
  [highlighted |-> FALSE, alpha |-> 0, r_factor |-> One, visible |-> FALSE]

TitleFor(anim) == IF anim THEN "Animation ON" ELSE "Animation OFF"

InList(seq, x) == \E i \in 1..Len(seq) : seq[i] = x

RemoveAt(seq, i) == SubSeq(seq, 1, i - 1) \o SubSeq(seq, i + 1, Len(seq))

\* list.remove(x): drops the first element equal to x
ListRemove(seq, x) ==
  IF InList(seq, x)
  THEN RemoveAt(seq, CHOOSE i \in 1..Len(seq) :
                       seq[i] = x /\ \A j \in 1..(i - 1) : seq[j] # x)
  ELSE seq

TasksOf(q, k) == {i \in 1..Len(q) : q[i].note_key = k}

---------------------------------------------------------------------------
(* The status display.  A note name is the pair of its semitone name and
   its octave number, which is one digit: x[:-1] is the first component,
   x[-1] the second.  The text shown is the sequence of the names joined,
   the empty sequence for "Active Notes: None". *)

\* the characters of the semitone names
semitone_chars ==
  << <<"C">>, <<"C", "#">>, <<"D">>, <<"D", "#">>, <<"E">>, <<"F">>,
     <<"F", "#">>, <<"G">>, <<"G", "#">>, <<"A">>, <<"A", "#">>, <<"B">> >>

CharsOf(s) == semitone_chars[CHOOSE i \in 1..12 : semitone_names[i] = s]

RECURSIVE rstrip(_, _)
\* str.rstrip(c): the trailing characters equal to c are dropped
rstrip(chars, c) ==
  IF chars # <<>> /\ chars[Len(chars)] = c
  THEN rstrip(SubSeq(chars, 1, Len(chars) - 1), c)
  ELSE chars

\* self.semitone_names.index(chars): the first position holding the string
index(chars) ==
  (CHOOSE i \in 1..12 :
     /\ semitone_chars[i] = chars
     /\ \A j \in 1..(i - 1) : semitone_chars[j] # chars) - 1

\* self.semitone_names.index(s.rstrip('#')) for every semitone name s
StrippedIndex ==
  [s \in {semitone_names[i] : i \in 1..12} |->
     index(rstrip(CharsOf(s), "#"))]

\* key=lambda x: (x[-1], self.semitone_names.index(x[:-1].rstrip('#')))
SortKey(x) == <<x[2], StrippedIndex[x[1]]>>

\* comparison of the key tuples
KeyLess(a, c) == a[1] < c[1] \/ (a[1] = c[1] /\ a[2] < c[2])

\* x is put behind every element whose key is not greater than its own
InsertStable(s, x) ==
  LET n == Cardinality({i \in 1..Len(s) :
                          ~KeyLess(SortKey(x), SortKey(s[i]))})
  IN SubSeq(s, 1, n) \o <<x>> \o SubSeq(s, n + 1, Len(s))

RECURSIVE sorted(_)
\* sorted(list, key=...): stable, equal keys keep the order of the list
sorted(seq) ==
  IF seq = <<>> THEN <<>>
  ELSE InsertStable(sorted(SubSeq(seq, 1, Len(seq) - 1)), seq[Len(seq)])

_update_status_display(self) ==
  [self EXCEPT
     !.status_text = IF self.active_notes_list = <<>> THEN <<>>
                     ELSE sorted(self.active_notes_list)]

---------------------------------------------------------------------------
(* The decay queue and the click handler *)

\* the whole queue is dropped, not only the entry of the target key
CancelEveryTask(self, target_note_key, set_invisible) ==
  LET q == self.active_decay_animations
      found == TasksOf(q, target_note_key)
  IN IF found = {} THEN self
     ELSE [self EXCEPT
             !.notes_data[target_note_key] =
               [@ EXCEPT !.alpha = IF set_invisible THEN 0 ELSE @,
                         !.visible = IF set_invisible THEN FALSE ELSE @,
                         !.highlighted = FALSE],
             !.active_decay_animations = <<>>]

_cancel_decay_animation_for_note(self, target_note_key, set_invisible) ==
  LET q == self.active_decay_animations
      found == TasksOf(q, target_note_key)
  IN IF found = {} THEN self
     ELSE LET i == CHOOSE i \in found : \A j \in found : i <= j
          IN [self EXCEPT
                !.notes_data[target_note_key] =
                  [@ EXCEPT !.alpha = IF set_invisible THEN 0 ELSE @,
                            !.visible = IF set_invisible THEN FALSE ELSE @,
                            !.highlighted = FALSE],
                !.active_decay_animations = RemoveAt(q, i)]

\* the queue entry is appended without cancelling the key's old entry
AddKeepingOldTask(self, note_key, t) ==
  LET q == Append(self.active_decay_animations,
                  [note_key |-> note_key, start_time |-> t,
                   duration |-> duration,
                   decay_end_factor |-> decay_end_factor])
      here == Cardinality(TasksOf(q, note_key))
  IN [self EXCEPT !.active_decay_animations = q,
                  !.peak = IF here > @ THEN here ELSE @]

\* peak keeps the most entries one key ever had right after an append
_add_note_to_decay_queue(self, note_key, t) ==
  LET c == _cancel_decay_animation_for_note(self, note_key, FALSE)
      q == Append(c.active_decay_animations,
                  [note_key |-> note_key, start_time |-> t,
                   duration |-> duration,
                   decay_end_factor |-> decay_end_factor])
      here == Cardinality(TasksOf(q, note_key))
  IN [c EXCEPT !.active_decay_animations = q,
               !.peak = IF here > @ THEN here ELSE @]

\* the lines whose contains(event) is true, first in registry order
FirstHit(hits) ==
  IF hits = {} THEN None
  ELSE KeyOrder[CHOOSE i \in 1..Cardinality(Keys) :
                  /\ KeyOrder[i] \in hits
                  /\ \A j \in 1..(i - 1) : KeyOrder[j] \notin hits]

\* the key is lit but no fade is scheduled, whatever the mode
HighlightWithoutTask(self, note_key, t) ==
  LET note_name == NameOf(note_key)
  IN [self EXCEPT
        !.notes_data[note_key] =
          [@ EXCEPT !.highlighted = TRUE, !.r_factor = One,
                    !.alpha = One, !.visible = TRUE],
        !.active_notes_list =
          IF InList(@, note_name) THEN @ ELSE Append(@, note_name)]

\* the radius is left as the fade wrote it: set_ydata(base_r) is missing
HighlightKeepingRadius(self, note_key, t) ==
  LET note_name == NameOf(note_key)
      lit == [self EXCEPT
                !.notes_data[note_key] =
                  [@ EXCEPT !.highlighted = TRUE, !.alpha = One,
                            !.visible = TRUE],
                !.active_notes_list =
                  IF InList(@, note_name) THEN @ ELSE Append(@, note_name)]
  IN IF lit.enable_animation
     THEN _add_note_to_decay_queue(lit, note_key, t)
     ELSE lit

\* the name is appended whether or not the list holds it: the test of
\* line 211 is missing
HighlightAppendingAlways(self, note_key, t) ==
  LET note_name == NameOf(note_key)
      lit == [self EXCEPT
                !.notes_data[note_key] =
                  [@ EXCEPT !.highlighted = TRUE, !.r_factor = One,
                            !.alpha = One, !.visible = TRUE],
                !.active_notes_list = Append(@, note_name)]
  IN IF lit.enable_animation
     THEN _add_note_to_decay_queue(lit, note_key, t)
     ELSE lit

\* lines 205-215: clicking an unhighlighted note
Highlight(self, note_key, t) ==
  LET note_name == NameOf(note_key)
      lit == [self EXCEPT
                !.notes_data[note_key] =
                  [@ EXCEPT !.highlighted = TRUE, !.r_factor = One,
                            !.alpha = One, !.visible = TRUE],
                !.active_notes_list =
                  IF InList(@, note_name) THEN @ ELSE Append(@, note_name)]
  IN IF lit.enable_animation
     THEN _add_note_to_decay_queue(lit, note_key, t)
     ELSE lit

\* the name stays in active_notes_list: lines 223-225 are missing
UnhighlightKeepingName(self, note_key) ==
  [self EXCEPT
     !.notes_data[note_key] =
       [@ EXCEPT !.highlighted = FALSE, !.alpha = 0, !.visible = FALSE]]

\* the line is hidden but keeps its alpha: set_alpha(0.0) is missing
UnhighlightKeepingAlpha(self, note_key) ==
  [self EXCEPT
     !.notes_data[note_key] =
       [@ EXCEPT !.highlighted = FALSE, !.visible = FALSE],
     !.active_notes_list = ListRemove(@, NameOf(note_key))]

\* lines 219-225: clicking an already highlighted note
Unhighlight(self, note_key) ==
  [self EXCEPT
     !.notes_data[note_key] =
       [@ EXCEPT !.highlighted = FALSE, !.alpha = 0, !.visible = FALSE],
     !.active_notes_list = ListRemove(@, NameOf(note_key))]

\* the key's queue entry is not cancelled first: line 202 is missing
ClickWithoutCancel(self, inaxes, hits, t) ==
  IF ~inaxes \/ hits = {} THEN self
  ELSE
    LET note_key == FirstHit(hits)
    IN _update_status_display(
         IF ~self.notes_data[note_key].highlighted
         THEN Highlight(self, note_key, t)
         ELSE Unhighlight(self, note_key))

\* the test of event.inaxes is left out
ClickIgnoringAxes(self, inaxes, hits, t) ==
  IF hits = {} THEN self
  ELSE
    LET note_key == FirstHit(hits)
        c == _cancel_decay_animation_for_note(self, note_key, TRUE)
    IN _update_status_display(
         IF ~c.notes_data[note_key].highlighted
         THEN Highlight(c, note_key, t)
         ELSE Unhighlight(c, note_key))

_on_click(self, inaxes, hits, t) ==
  IF ~inaxes \/ hits = {} THEN self
  ELSE
    LET note_key == FirstHit(hits)
        c == _cancel_decay_animation_for_note(self, note_key, TRUE)
    IN _update_status_display(
         IF ~c.notes_data[note_key].highlighted
         THEN Highlight(c, note_key, t)
         ELSE Unhighlight(c, note_key))

---------------------------------------------------------------------------
(* Background cache *)

HideAll(nd) == [k \in Keys |-> [nd[k] EXCEPT !.visible = FALSE]]

\* every line is shown again, not only the highlighted ones
RestoreEveryLine(nd, anim) ==
  [k \in Keys |->
     IF ~anim
     THEN [nd[k] EXCEPT !.visible = TRUE, !.alpha = One]
     ELSE nd[k]]

\* the restore loop shared by both capture routines: lines 147-150, 168-171
RestoreHighlighted(nd, anim) ==
  [k \in Keys |->
     IF nd[k].highlighted /\ ~anim
     THEN [nd[k] EXCEPT !.visible = TRUE, !.alpha = One]
     ELSE nd[k]]

\* copy_from_bbox of a canvas showing the title and the given lines
Snapshot(shownTitle, shownLines) ==
  <<[title |-> shownTitle, lines |-> shownLines]>>

\* draw_event handler; the canvas it copies was drawn before the lines are
\* hidden, so the copy holds the lines that were visible at that draw
_on_initial_draw_capture(self) ==
  IF self.background = None
  THEN [self EXCEPT
          !.background =
            Snapshot(self.title,
                     {k \in Keys : self.notes_data[k].visible}),
          !.notes_data =
            RestoreHighlighted(HideAll(self.notes_data),
                               self.enable_animation)]
  ELSE self

\* the hide loop of lines 159-160 is left out
RecaptureWithoutHiding(self) ==
  LET drawn == _on_initial_draw_capture(self)
  IN [drawn EXCEPT
        !.background =
          Snapshot(drawn.title, {k \in Keys : self.notes_data[k].visible}),
        !.notes_data = RestoreHighlighted(@, drawn.enable_animation)]

\* canvas.draw() runs with every line hidden and fires draw_event before
\* the copy of line 165 is taken
_recreate_background(self) ==
  LET hidden == [self EXCEPT !.notes_data = HideAll(@)]
      drawn == _on_initial_draw_capture(hidden)
  IN [drawn EXCEPT
        !.background =
          Snapshot(drawn.title, {k \in Keys : hidden.notes_data[k].visible}),
        !.notes_data = RestoreHighlighted(@, drawn.enable_animation)]

_update_title(self) ==
  [self EXCEPT !.title = TitleFor(self.enable_animation)]

---------------------------------------------------------------------------
(* Batch decay and the key handler *)

RECURSIVE BatchLoop(_, _, _, _)
\* lines 341-349 over notes_to_decay_keys, from position i on
BatchLoop(self, notes_to_decay_keys, i, t) ==
  IF i > Len(notes_to_decay_keys) THEN self
  ELSE LET note_key == notes_to_decay_keys[i]
           shown == [self EXCEPT
                       !.notes_data[note_key] =
                         [@ EXCEPT !.r_factor = One, !.alpha = One,
                                   !.visible = TRUE]]
       IN BatchLoop(_add_note_to_decay_queue(shown, note_key, t),
                    notes_to_decay_keys, i + 1, t)

\* the highlighted keys are shown at full size but none is queued: line
\* 349 is missing
BatchWithoutQueue(self, force_animation, t) ==
  IF ~self.enable_animation /\ ~force_animation THEN self
  ELSE LET cleared == _update_status_display(
                        [self EXCEPT !.active_notes_list = <<>>])
       IN [cleared EXCEPT
             !.notes_data =
               [k \in DOMAIN @ |->
                  IF @[k].highlighted
                  THEN [@[k] EXCEPT !.r_factor = One, !.alpha = One,
                                    !.visible = TRUE]
                  ELSE @[k]]]

_trigger_batch_decay(self, force_animation, t) ==
  IF ~self.enable_animation /\ ~force_animation THEN self
  ELSE LET notes_to_decay_keys ==
             SelectSeq(KeyOrder,
                       LAMBDA k : self.notes_data[k].highlighted)
       IN BatchLoop(_update_status_display(
                      [self EXCEPT !.active_notes_list = <<>>]),
                    notes_to_decay_keys, 1, t)

\* the mode is switched but the lit keys are left as they are: lines
\* 188-190 are missing
KeyPressWithoutBatch(self, key, t) ==
  IF key = " "
  THEN IF ~self.enable_animation
       THEN _trigger_batch_decay(self, FALSE, t)
       ELSE self
  ELSE IF key = "a"
  THEN _update_title(
         [_recreate_background(self) EXCEPT !.enable_animation = ~@])
  ELSE self

\* the space key starts the batch decay in either mode
KeyPressReleasingAlways(self, key, t) ==
  IF key = " "
  THEN _trigger_batch_decay(self, TRUE, t)
  ELSE IF key = "a"
  THEN LET bg == _recreate_background(self)
           toggled == _update_title(
                        [bg EXCEPT !.enable_animation = ~@])
       IN IF toggled.enable_animation /\ toggled.active_notes_list # <<>>
          THEN _trigger_batch_decay(toggled, TRUE, t)
          ELSE toggled
  ELSE self

\* switching the mode off empties the queue
KeyPressDroppingFades(self, key, t) ==
  IF key = " "
  THEN IF ~self.enable_animation
       THEN _trigger_batch_decay(self, FALSE, t)
       ELSE self
  ELSE IF key = "a"
  THEN LET bg == _recreate_background(self)
           toggled == _update_title(
                        [bg EXCEPT !.enable_animation = ~@])
       IN IF toggled.enable_animation
          THEN IF toggled.active_notes_list # <<>>
               THEN _trigger_batch_decay(toggled, TRUE, t)
               ELSE toggled
          ELSE [toggled EXCEPT !.active_decay_animations = <<>>]
  ELSE self

_on_key_press(self, key, t) ==
  IF key = " "
  THEN IF ~self.enable_animation
       THEN _trigger_batch_decay(self, FALSE, t)
       ELSE self
  ELSE IF key = "a"
  THEN LET bg == _recreate_background(self)
           toggled == _update_title(
                        [bg EXCEPT !.enable_animation = ~@])
       IN IF toggled.enable_animation /\ toggled.active_notes_list # <<>>
          THEN _trigger_batch_decay(toggled, TRUE, t)
          ELSE toggled
  ELSE self

---------------------------------------------------------------------------
(* The master tick *)

Min(a, c) == IF a < c THEN a ELSE c

\* progress stops one step short of 1.0
ProgressShortOfOne(decay_info, current_time) ==
  Min(One - 1, ((current_time - decay_info.start_time) * One)
                 \div decay_info.duration)

\* progress = min(1.0, elapsed_time / duration)
Progress(decay_info, current_time) ==
  Min(One, ((current_time - decay_info.start_time) * One)
             \div decay_info.duration)

\* the radius shrinks to nothing: the end factor is left out
RFactorToZero(progress, end_factor) == One - progress

\* current_r_factor = 1.0 - progress * (1.0 - decay_end_factor)
RFactor(progress, end_factor) ==
  One - (progress * (One - end_factor)) \div One

\* the line fades in instead of out
AlphaRising(progress) == progress

\* current_alpha = 1.0 - progress
Alpha(progress) == One - progress

RECURSIVE FadePerFrame(_, _, _, _)
\* the fade of the early revisions: one fixed step per frame, finished when
\* alpha has run out, whatever the clock says
FadePerFrame(nd, tasks, i, current_time) ==
  IF i > Len(tasks) THEN nd
  ELSE LET k == tasks[i].note_key
           stepped ==
             IF nd[k].alpha > 2
             THEN [nd EXCEPT
                     ![k] = [@ EXCEPT !.r_factor = @ - 1, !.alpha = @ - 2,
                                      !.visible = TRUE]]
             ELSE [nd EXCEPT
                     ![k] = [@ EXCEPT !.alpha = 0, !.visible = FALSE,
                                      !.highlighted = FALSE]]
       IN FadePerFrame(stepped, tasks, i + 1, current_time)

\* every highlighted line is put out, whether the queue holds it or not
FadeEveryLine(nd, tasks, i, current_time) ==
  [k \in Keys |->
     IF nd[k].highlighted
     THEN [nd[k] EXCEPT !.alpha = 0, !.visible = FALSE,
                        !.highlighted = FALSE]
     ELSE nd[k]]

RECURSIVE FadeScalingBase(_, _, _, _)
\* the fade scales the stored radii themselves: original_r_data is
\* multiplied in place
FadeScalingBase(nd, tasks, i, current_time) ==
  IF i > Len(tasks) THEN nd
  ELSE LET decay_info == tasks[i]
           k == decay_info.note_key
           progress == Progress(decay_info, current_time)
           stepped ==
             IF progress < One
             THEN [nd EXCEPT
                     ![k] = [@ EXCEPT
                               !.base_r =
                                 [@ EXCEPT !.factor.num = 2 * @],
                               !.alpha = Alpha(progress),
                               !.visible = TRUE]]
             ELSE [nd EXCEPT
                     ![k] = [@ EXCEPT !.alpha = 0, !.visible = FALSE,
                                      !.highlighted = FALSE]]
       IN FadeScalingBase(stepped, tasks, i + 1, current_time)

RECURSIVE FadeLoop(_, _, _, _)
\* lines 258-284 over the copy of the queue, from position i on
FadeLoop(nd, tasks, i, current_time) ==
  IF i > Len(tasks) THEN nd
  ELSE LET decay_info == tasks[i]
           k == decay_info.note_key
           progress == Progress(decay_info, current_time)
           stepped ==
             IF progress < One
             THEN [nd EXCEPT
                     ![k] = [@ EXCEPT
                               !.r_factor =
                                 RFactor(progress,
                                         decay_info.decay_end_factor),
                               !.alpha = Alpha(progress),
                               !.visible = TRUE]]
             ELSE [nd EXCEPT
                     ![k] = [@ EXCEPT !.alpha = 0, !.visible = FALSE,
                                      !.highlighted = FALSE]]
       IN FadeLoop(stepped, tasks, i + 1, current_time)

\* finished animations are left in the queue
RemoveNothing(q, notes_to_remove_from_queue, i) == q

RECURSIVE RemoveFinished(_, _, _)
\* lines 287-289
RemoveFinished(q, notes_to_remove_from_queue, i) ==
  IF i > Len(notes_to_remove_from_queue) THEN q
  ELSE RemoveFinished(ListRemove(q, notes_to_remove_from_queue[i]),
                      notes_to_remove_from_queue, i + 1)

_update_decay_animations(self, current_time) ==
  LET ready == IF self.background = None
               THEN _recreate_background(self) ELSE self
      tasks == ready.active_decay_animations
      notes_to_remove_from_queue ==
        SelectSeq(tasks, LAMBDA d : ~(Progress(d, current_time) < One))
  IN _update_status_display(
       [ready EXCEPT
          !.notes_data = FadeLoop(@, tasks, 1, current_time),
          !.active_decay_animations =
            RemoveFinished(@, notes_to_remove_from_queue, 1)])

\* the lines in the frame that line 294 blits: those held by the restored
\* background and those handed to draw_artist, the queue entries with
\* progress < 1.0
Blitted(self, current_time) ==
  LET ready == IF self.background = None
               THEN _recreate_background(self) ELSE self
      tasks == ready.active_decay_animations
  IN ready.background[1].lines
       \cup {tasks[i].note_key :
               i \in {j \in 1..Len(tasks) :
                        Progress(tasks[j], current_time) < One}}

---------------------------------------------------------------------------
(* Logical states of a key *)

HasTask(k) == TasksOf(active_decay_animations, k) # {}

Idle(k) == ~notes_data[k].highlighted /\ ~HasTask(k)

Sustained(k) == notes_data[k].highlighted /\ ~HasTask(k)

Decaying(k) == HasTask(k)

TaskOf(k) ==
  active_decay_animations[CHOOSE i \in
                            TasksOf(active_decay_animations, k) : TRUE]

---------------------------------------------------------------------------
(* Geometry of the segments.  Angles are counted in angle steps, 2*pi being
   TwoPi of them; a fraction is a record of its numerator and denominator.
   A radius exp(b * theta) is a power of two, 2^(theta / 2*pi), and is kept
   as the fraction that is its exponent. *)

\* 2*pi in angle steps
TwoPi == 12 * AngleSteps

\* the exponent is twice what it should be: np.log(2) / np.pi
BOfHalfTurn == [num |-> 2, den |-> TwoPi]

\* self.b = np.log(2) / (2 * np.pi), as the multiple of ln 2 per angle step
b == [num |-> 1, den |-> TwoPi]

num_points_in_segment == 30

total_start_theta(octave_idx, semitone_idx) ==
  octave_idx * TwoPi + semitone_idx * (TwoPi \div 12)

\* the end is one angle step short of the next key's start
EndShortOfNext(octave_idx, semitone_idx) ==
  octave_idx * TwoPi + (semitone_idx + 1) * (TwoPi \div 12) - 1

total_end_theta(octave_idx, semitone_idx) ==
  octave_idx * TwoPi + (semitone_idx + 1) * (TwoPi \div 12)

\* np.linspace(start, stop, num): the array is kept as the three arguments
\* that determine it
linspace(start, stop, num) == [start |-> start, stop |-> stop, num |-> num]

\* element i, counted from 0, of a linspace: start + i * step with
\* step = (stop - start) / (num - 1)
At(array, i) ==
  [num |-> array.start * (array.num - 1) + i * (array.stop - array.start),
   den |-> array.num - 1]

\* np.exp(self.b * segment_theta): the array is kept as the factor and the
\* angles it is computed from
exp_times(factor, array) == [factor |-> factor, theta |-> array]

\* element i of such an array: exp(num/den * ln 2 * theta_i), kept as the
\* exponent of two
RadiusAt(array, i) ==
  [num |-> array.factor.num * At(array.theta, i).num,
   den |-> array.factor.den * At(array.theta, i).den]

\* comparison of two fractions with positive denominators; it is the
\* comparison of the radii as well, 2^x growing with x
Less(x, y) == x.num * y.den < y.num * x.den

\* the characters of str(n) for a number below 100
str(n) ==
  LET digit == <<"0", "1", "2", "3", "4", "5", "6", "7", "8", "9">>
  IN IF n < 10 THEN <<digit[n + 1]>>
     ELSE <<digit[(n \div 10) + 1], digit[(n % 10) + 1]>>

\* the characters of the f-string of line 84 for a name
Rendered(name) == CharsOf(name[1]) \o str(name[2])

\* the dict entry of lines 96-106: the line is created with alpha 0.0 and
\* ydata segment_r and is hidden
Segment(octave_idx, semitone_idx) ==
  LET segment_theta ==
        linspace(total_start_theta(octave_idx, semitone_idx),
                 total_end_theta(octave_idx, semitone_idx),
                 num_points_in_segment)
      segment_r == exp_times(b, segment_theta)
  IN [highlighted |-> FALSE, alpha |-> 0, r_factor |-> One,
      visible |-> FALSE,
      name |-> _get_note_name(octave_idx, semitone_idx),
      base_theta |-> segment_theta,
      base_r |-> segment_r]

\* the loop variables after one pass of the inner loop
NextPass(octave_idx, semitone_idx) ==
  IF semitone_idx < 11
  THEN [octave_idx |-> octave_idx, semitone_idx |-> semitone_idx + 1]
  ELSE [octave_idx |-> octave_idx + 1, semitone_idx |-> 0]

RECURSIVE DrawFrom(_, _, _)
\* the passes of the loops of lines 87-88 from (octave_idx, semitone_idx) on
DrawFrom(nd, octave_idx, semitone_idx) ==
  IF octave_idx >= n_rotations THEN nd
  ELSE LET next == NextPass(octave_idx, semitone_idx)
       IN DrawFrom((<<octave_idx, semitone_idx>>
                      :> Segment(octave_idx, semitone_idx)) @@ nd,
                   next.octave_idx, next.semitone_idx)

\* self.notes_data when _draw_notes_segments has returned
_draw_notes_segments == DrawFrom(<<>>, 0, 0)

---------------------------------------------------------------------------
(* The coordinate-based hit tester of src/v11.py *)

V11Keys == (0..(n_rotations - 1)) \X (0..11)

\* the v11 object after construction, no event handled yet
V11Fresh ==
  [notes_data |-> [k \in V11Keys |-> [highlighted |-> FALSE, alpha |-> 0]],
   event |-> None,
   handled |-> FALSE]

\* self.angles = np.linspace(0, 2*pi, 13)
angles == [i \in 0..12 |-> i * AngleSteps]

\* 2^n_rotations, the outermost octave bound
Rim == 2 ^ n_rotations

\* the pointer events: xdata in angle steps, ydata in radius steps
V11Events ==
  [inaxes : BOOLEAN, button : {1, 3},
   xdata : (0 - AngleSteps)..(TwoPi + AngleSteps),
   ydata : 0..((Rim + BeyondRim) * RadiusSteps)]

\* clicked_theta = event.xdata % (2 * np.pi)
clicked_theta(event) == event.xdata % TwoPi

RECURSIVE Halvings(_, _)
\* how often d goes into n when d is doubled: floor(log2(n/d)) for n >= d
Halvings(n, d) == IF n < 2 * d THEN 0 ELSE 1 + Halvings(n, 2 * d)

RECURSIVE Doublings(_, _)
\* how often n can be doubled without passing d: floor(log2(d/n)), n <= d
Doublings(n, d) == IF 2 * n > d THEN 0 ELSE 1 + Doublings(2 * n, d)

\* the logarithm is rounded up instead of being cut off
CeilLog2(clicked_r) ==
  IF clicked_r >= RadiusSteps
  THEN Halvings(clicked_r, RadiusSteps)
         + (IF clicked_r = (2 ^ Halvings(clicked_r, RadiusSteps))
                             * RadiusSteps THEN 0 ELSE 1)
  ELSE 0 - Doublings(clicked_r, RadiusSteps)

\* octave_idx = int(np.log2(clicked_r)): int() cuts the logarithm off
\* towards zero, so below radius 1 it is rounded up
octave_idx(clicked_r) ==
  IF clicked_r >= RadiusSteps
  THEN Halvings(clicked_r, RadiusSteps)
  ELSE 0 - Doublings(clicked_r, RadiusSteps)

\* lines 105-112: the first sector [angles[i], angles[i+1]) that holds the
\* angle, and sector 11 for an angle that is 2*pi itself
semitone_idx(theta) ==
  LET found == {i \in 0..11 : angles[i] <= theta /\ theta < angles[i + 1]}
  IN IF found # {}
     THEN <<CHOOSE i \in found : \A j \in found : i <= j>>
     ELSE IF theta = angles[12] THEN <<11>> ELSE None

\* lines 103-120: the sector of the angle, and the segment of that octave
\* and sector toggled when the registry has it
v11_toggle(self, theta, octave) ==
  LET semitone == semitone_idx(theta)
      note_key == <<octave, semitone[1]>>
  IN IF semitone # None /\ note_key \in V11Keys
     THEN LET current_state == self.notes_data[note_key].highlighted
          IN [self EXCEPT
                !.notes_data[note_key] =
                  [highlighted |-> ~current_state,
                   alpha |-> IF ~current_state THEN One ELSE 0]]
     ELSE self

\* v11's button_press_event handler; np.log2 of a radius of 0 is -inf, and
\* int() of it raises, which ends the handler
v11_on_click(self, event) ==
  IF ~event.inaxes \/ event.button # 1 \/ event.ydata <= 0 THEN self
  ELSE v11_toggle(self, clicked_theta(event), octave_idx(event.ydata))

\* lines 71-72 of src/v11.py, for the key (octave_idx, semitone_idx)
start_angle_for_note(k) == k[1] * TwoPi + k[2] * (TwoPi \div 12)

end_angle_for_note(k) == k[1] * TwoPi + (k[2] + 1) * (TwoPi \div 12)

\* r_full = np.exp(b * theta_full) at one angle, kept as the exponent of
\* two
r_full(theta) == [num |-> b.num * theta, den |-> b.den]

\* the exponent is rounded to the nearest whole number
NearestOfPower(x) == (2 * x.num + x.den) \div (2 * x.den)

\* int(np.log2(clicked_r)) for a radius 2^x given by a fraction x >= 0:
\* the logarithm is x, and int() cuts it off
octave_idx_of_power(x) == x.num \div x.den

\* the handler for a pointer whose radius is given as a power of two
v11_on_click_on_spiral(self, event) ==
  IF ~event.inaxes \/ event.button # 1 THEN self
  ELSE v11_toggle(self, clicked_theta(event),
                  octave_idx_of_power(event.ydata))

---------------------------------------------------------------------------
(* The per-key-timer revision, src/v20.py: every fade is a FuncAnimation of
   its own with its own timer.  self.animations is the sequence of the
   FuncAnimation objects created so far; an object is named by its
   position, and running tells whether its timer still fires. *)

\* n_frames = 40 in the source; the model counts one frame per clock step
\* of a fade
n_frames == duration

\* the v20 object after construction
V20Fresh(anim) ==
  [enable_animation |-> anim,
   notes_data |-> [k \in Keys |->
                     [highlighted |-> FALSE, alpha |-> 0, r_factor |-> One]],
   active_notes_list |-> <<>>,
   current_decay_animations |-> [k \in Keys |-> None],
   animations |-> <<>>,
   title |-> TitleFor(anim),
   status_text |-> <<>>]

\* the FuncAnimation objects of a key whose timer fires
RunningOf(self, k) ==
  {i \in 1..Len(self.animations) :
     self.animations[i].note_key = k /\ self.animations[i].running}

\* lines 170-214: a new FuncAnimation is created and stored under the key;
\* what the registry held for the key before is overwritten
_start_decay_animation(self, note_key, force_start) ==
  IF ~self.enable_animation /\ ~force_start THEN self
  ELSE [self EXCEPT
          !.animations =
            Append(@, [note_key |-> note_key, frame |-> 0,
                       running |-> TRUE]),
          !.current_decay_animations[note_key] =
            <<Len(self.animations) + 1>>]

\* lines 184-209, the closure of the animation of note_key
animate_frame(self, note_key, frame_idx) ==
  IF frame_idx < n_frames
  THEN [self EXCEPT
          !.notes_data[note_key] =
            [@ EXCEPT
               !.r_factor =
                 One - (frame_idx * (One - decay_end_factor))
                         \div (n_frames - 1),
               !.alpha = One - (frame_idx * One) \div (n_frames - 1)]]
  ELSE LET gone == [self EXCEPT
                      !.notes_data[note_key] = [@ EXCEPT !.alpha = 0],
                      !.current_decay_animations[note_key] = None]
       IN IF gone.notes_data[note_key].highlighted
          THEN _update_status_display(
                 [gone EXCEPT
                    !.notes_data[note_key] =
                      [@ EXCEPT !.highlighted = FALSE],
                    !.active_notes_list =
                      ListRemove(@, NameOf(note_key))])
          ELSE gone

RECURSIVE V20BatchLoop(_, _, _)
\* lines 228-245 over notes_to_decay_names, from position i on
V20BatchLoop(self, notes_to_decay_names, i) ==
  IF i > Len(notes_to_decay_names) THEN self
  ELSE LET note_key_found ==
             CHOOSE k \in Keys : NameOf(k) = notes_to_decay_names[i]
           shown == [self EXCEPT
                       !.notes_data[note_key_found] =
                         [@ EXCEPT !.r_factor = One, !.alpha = One]]
       IN V20BatchLoop(_start_decay_animation(shown, note_key_found, TRUE),
                       notes_to_decay_names, i + 1)

\* lines 217-247
v20_trigger_batch_decay(self, force_animation) ==
  IF ~self.enable_animation /\ ~force_animation THEN self
  ELSE V20BatchLoop(_update_status_display(
                      [self EXCEPT !.active_notes_list = <<>>]),
                    self.active_notes_list, 1)

\* lines 116-129
v20_on_key_press(self, key) ==
  IF key = " "
  THEN IF ~self.enable_animation
       THEN v20_trigger_batch_decay(self, FALSE)
       ELSE self
  ELSE IF key = "a"
  THEN LET toggled == [self EXCEPT
                         !.enable_animation = ~@,
                         !.title = TitleFor(~self.enable_animation)]
       IN IF toggled.enable_animation /\ toggled.active_notes_list # <<>>
          THEN v20_trigger_batch_decay(toggled, TRUE)
          ELSE toggled
  ELSE self

\* lines 131-167
v20_on_click(self, inaxes, hits) ==
  IF ~inaxes \/ hits = {} THEN self
  ELSE
    LET note_key == FirstHit(hits)
        note_name == NameOf(note_key)
        held == self.current_decay_animations[note_key]
        stopped ==
          IF held # None
          THEN [self EXCEPT
                  !.animations[held[1]] = [@ EXCEPT !.running = FALSE],
                  !.current_decay_animations[note_key] = None,
                  !.notes_data[note_key] = [@ EXCEPT !.alpha = 0]]
          ELSE self
    IN IF ~stopped.notes_data[note_key].highlighted
       THEN LET lit == [stopped EXCEPT
                          !.notes_data[note_key] =
                            [@ EXCEPT !.highlighted = TRUE,
                                      !.r_factor = One, !.alpha = One],
                          !.active_notes_list =
                            IF InList(@, note_name) THEN @
                            ELSE Append(@, note_name)]
            IN _update_status_display(
                 IF lit.enable_animation
                 THEN _start_decay_animation(lit, note_key, FALSE)
                 ELSE lit)
       ELSE _update_status_display(
              [stopped EXCEPT
                 !.notes_data[note_key] =
                   [@ EXCEPT !.highlighted = FALSE, !.alpha = 0],
                 !.active_notes_list = ListRemove(@, note_name)])

---------------------------------------------------------------------------
(* Events *)

Install(self) ==
  /\ notes_data' = self.notes_data
  /\ active_notes_list' = self.active_notes_list
  /\ active_decay_animations' = self.active_decay_animations
  /\ enable_animation' = self.enable_animation
  /\ background' = self.background
  /\ title' = self.title
  /\ status_text' = self.status_text
  /\ peak' = self.peak

\* two lines can both contain one pointer only where their arcs meet
Adjacent(a, c) == a[1] = c[1] /\ (a[2] = c[2] + 1 \/ c[2] = a[2] + 1)

Pointers ==
  {h \in SUBSET Keys :
     Cardinality(h) <= 2 /\ \A a, c \in h : a = c \/ Adjacent(a, c)}

NoStreak == [key |-> None, n |-> 0]

\* what the last event was: the handler, the key it resolved to, that
\* key's logical state when the handler was entered and, for a tick, the
\* tasks the tick finished
Event(op, key, was, done) ==
  [op |-> op, key |-> key, was |-> was, done |-> done]

StateOf(k) ==
  IF HasTask(k) THEN "Decaying"
  ELSE IF notes_data[k].highlighted THEN "Sustained"
  ELSE "Idle"

Init ==
  /\ notes_data = [k \in Keys |-> NewNote]
  /\ active_notes_list = <<>>
  /\ active_decay_animations = <<>>
  /\ enable_animation \in BOOLEAN
  /\ background = None
  /\ title = TitleFor(enable_animation)
  /\ status_text = <<>>
  /\ now = 0
  /\ last = Event("init", None, "", {})
  /\ peak = 0
  /\ streak = NoStreak
  /\ other = Self
  /\ ticked = [a |-> FALSE, b |-> FALSE]
  /\ pc = None
  /\ v20 = None
  /\ v11 = None

\* draw_event: the figure is drawn (first show, resize, a pending draw_idle)
DrawEvent ==
  /\ Install(_on_initial_draw_capture(Self))
  /\ last' = Event("draw", None, "", {})
  /\ UNCHANGED <<pc, v11, now, streak, other, ticked, v20>>

\* the draw that shows the window; the handler acts on this one only
FirstDraw == background = None /\ DrawEvent

\* button_press_event; the window takes input once it has been drawn
Click(inaxes, hits) ==
  /\ background # None
  /\ Install(_on_click(Self, inaxes, hits, now))
  /\ LET k == IF inaxes THEN FirstHit(hits) ELSE None
     IN last' = Event("click", k, IF k = None THEN "" ELSE StateOf(k), {})
  /\ UNCHANGED <<pc, v11, now, streak, other, ticked, v20>>

\* a click inside the axes on the line of at least one key
ClickOnKey(hits) == hits # {} /\ Click(TRUE, hits)

\* key_press_event
KeyPress(key) ==
  /\ background # None
  /\ Install(_on_key_press(Self, key, now))
  /\ last' = Event(key, None, "", {})
  /\ UNCHANGED <<pc, v11, now, streak, other, ticked, v20>>

\* the 'a' key
Toggle == KeyPress("a")

\* FuncAnimation's timer, started by the first draw
Tick ==
  /\ background # None
  /\ Install(_update_decay_animations(Self, now))
  /\ last' = Event("tick", None, "",
                   {active_decay_animations[i] :
                      i \in {j \in 1..Len(active_decay_animations) :
                               ~InList(active_decay_animations',
                                       active_decay_animations[j])}})
  /\ UNCHANGED <<pc, v11, now, streak, other, ticked, v20>>

\* time.time() moves on
Advance ==
  /\ now < MaxTime
  /\ now' = now + 1
  /\ last' = Event("wait", None, "", {})
  /\ UNCHANGED <<pc, v11, notes_data, active_notes_list,
                 active_decay_animations, status_text,
                 enable_animation, background, title, peak, streak,
                 other, ticked, v20>>

\* The events the handlers act on.  The others (the space key, any key but
\* 'a', a click outside the axes or on no line, a redraw) return without
\* touching the instance; NextAll has them.
Next ==
  \/ FirstDraw
  \/ \E hits \in Pointers : ClickOnKey(hits)
  \/ Toggle
  \/ Tick
  \/ Advance

Spec == Init /\ [][Next]_vars

\* every event of the connected handlers
NextAll ==
  \/ DrawEvent
  \/ \E inaxes \in BOOLEAN, hits \in Pointers : Click(inaxes, hits)
  \/ \E key \in {" ", "a", "x"} : KeyPress(key)
  \/ Tick
  \/ Advance

SpecAll == Init /\ [][NextAll]_vars

\* a click outside the axes, or inside them on no line
StrayClick(inaxes, hits) == (~inaxes \/ hits = {}) /\ Click(inaxes, hits)

\* the events of Next and the pointer events that resolve to no key
NextPointer ==
  \/ FirstDraw
  \/ \E hits \in Pointers : ClickOnKey(hits)
  \/ \E inaxes \in BOOLEAN, hits \in Pointers : StrayClick(inaxes, hits)
  \/ Toggle
  \/ Tick
  \/ Advance

SpecPointer == Init /\ [][NextPointer]_vars

\* the events of Next, with the figure drawn again at any time (a resize,
\* a pending draw_idle)
NextRedraw ==
  \/ DrawEvent
  \/ \E hits \in Pointers : ClickOnKey(hits)
  \/ Toggle
  \/ Tick
  \/ Advance

SpecRedraw == Init /\ [][NextRedraw]_vars

\* the space key, the release-all command
Space == KeyPress(" ")

\* the events of Next and the space key
NextRelease ==
  \/ FirstDraw
  \/ \E hits \in Pointers : ClickOnKey(hits)
  \/ Toggle
  \/ Space
  \/ Tick
  \/ Advance

SpecRelease == Init /\ [][NextRelease]_vars

---------------------------------------------------------------------------
(* The events of Next, with the successive clicks on one key counted *)

\* counts the successive clicks on one key, the first of them on an Idle key
StreakAfterClick(k) ==
  IF streak = [key |-> k, n |-> 1] THEN [key |-> k, n |-> 2]
  ELSE IF Idle(k) THEN [key |-> k, n |-> 1]
  ELSE NoStreak

CountedClick(hits) ==
  /\ background # None
  /\ hits # {}
  /\ Install(_on_click(Self, TRUE, hits, now))
  /\ last' = Event("click", FirstHit(hits), StateOf(FirstHit(hits)), {})
  /\ streak' = StreakAfterClick(FirstHit(hits))
  /\ UNCHANGED <<pc, v11, now, other, ticked, v20>>

CountedToggle ==
  /\ background # None
  /\ Install(_on_key_press(Self, "a", now))
  /\ last' = Event("a", None, "", {})
  /\ streak' = NoStreak
  /\ UNCHANGED <<pc, v11, now, other, ticked, v20>>

NextCounted ==
  \/ FirstDraw
  \/ \E hits \in Pointers : CountedClick(hits)
  \/ CountedToggle
  \/ Tick
  \/ Advance

SpecCounted == Init /\ [][NextCounted]_vars

---------------------------------------------------------------------------
(* Two instances that receive the same clicks at the same times and are
   ticked independently of each other; the mode stays as constructed *)

NotTicked == [a |-> FALSE, b |-> FALSE]

RateDraw ==
  /\ background = None
  /\ Install(_on_initial_draw_capture(Self))
  /\ other' = _on_initial_draw_capture(other)
  /\ last' = Event("draw", None, "", {})
  /\ UNCHANGED <<pc, v11, now, streak, ticked, v20>>

RateClick(hits) ==
  /\ background # None
  /\ hits # {}
  /\ Install(_on_click(Self, TRUE, hits, now))
  /\ other' = _on_click(other, TRUE, hits, now)
  /\ last' = Event("click", FirstHit(hits), StateOf(FirstHit(hits)), {})
  /\ ticked' = NotTicked
  /\ UNCHANGED <<pc, v11, now, streak, v20>>

\* the timer of this instance fires
RateTick ==
  /\ background # None
  /\ Install(_update_decay_animations(Self, now))
  /\ last' = Event("tick", None, "", {})
  /\ ticked' = [ticked EXCEPT !.a = TRUE]
  /\ UNCHANGED <<pc, v11, now, streak, other, v20>>

\* the timer of the other instance fires
RateTickOther ==
  /\ other.background # None
  /\ other' = _update_decay_animations(other, now)
  /\ last' = Event("tick other", None, "", {})
  /\ ticked' = [ticked EXCEPT !.b = TRUE]
  /\ UNCHANGED <<pc, v11, notes_data, active_notes_list,
                 active_decay_animations, status_text,
                 enable_animation, background, title, peak, now, streak, v20>>

RateAdvance ==
  /\ now < MaxTime
  /\ now' = now + 1
  /\ last' = Event("wait", None, "", {})
  /\ ticked' = NotTicked
  /\ UNCHANGED <<pc, v11, notes_data, active_notes_list,
                 active_decay_animations, status_text,
                 enable_animation, background, title, peak, streak, other,
                 v20>>

NextRate ==
  \/ RateDraw
  \/ \E hits \in Pointers : RateClick(hits)
  \/ RateTick
  \/ RateTickOther
  \/ RateAdvance

SpecRate == Init /\ [][NextRate]_vars

---------------------------------------------------------------------------
(* The hit tester of v11 applied to one pointer event *)

V11AllLit ==
  [k \in V11Keys |-> [highlighted |-> TRUE, alpha |-> One]]

\* a v11 object, every segment unlit or every segment lit, and a pointer
\* event about to be delivered
InitV11 ==
  /\ notes_data = [k \in Keys |-> NewNote]
  /\ active_notes_list = <<>>
  /\ active_decay_animations = <<>>
  /\ enable_animation = TRUE
  /\ background = None
  /\ title = TitleFor(enable_animation)
  /\ status_text = <<>>
  /\ now = 0
  /\ last = Event("init", None, "", {})
  /\ peak = 0
  /\ streak = NoStreak
  /\ other = Self
  /\ ticked = [a |-> FALSE, b |-> FALSE]
  /\ pc = None
  /\ v20 = None
  /\ \E nd \in {V11Fresh.notes_data, V11AllLit}, e \in V11Events :
       v11 = [V11Fresh EXCEPT !.notes_data = nd, !.event = <<e>>]

V11Click ==
  /\ ~v11.handled
  /\ v11.event # None
  /\ v11' = [v11_on_click(v11, v11.event[1]) EXCEPT !.handled = TRUE]
  /\ UNCHANGED <<notes_data, active_notes_list, active_decay_animations,
                 status_text, enable_animation, background, title, peak,
                 now, last, streak, other, ticked, pc, v20>>

NextV11 == V11Click

SpecV11 == InitV11 /\ [][NextV11]_vars

---------------------------------------------------------------------------
(* The hit tester of v11 applied to a pointer on the spiral *)

\* left clicks on the arc of key k strictly between its two ends, the
\* angle given as drawn (with its whole turns) or within one turn
ArcEvents(k) ==
  {[inaxes |-> TRUE, button |-> 1,
    xdata |-> theta - turns * TwoPi,
    ydata |-> r_full(theta)] :
     theta \in (start_angle_for_note(k) + 1)..(end_angle_for_note(k) - 1),
     turns \in {0, k[1]}}

\* a v11 object, every segment unlit or every segment lit, and a pointer
\* on the arc of one key about to be delivered
InitArc ==
  /\ notes_data = [k \in Keys |-> NewNote]
  /\ active_notes_list = <<>>
  /\ active_decay_animations = <<>>
  /\ enable_animation = TRUE
  /\ background = None
  /\ title = TitleFor(enable_animation)
  /\ status_text = <<>>
  /\ now = 0
  /\ last = Event("init", None, "", {})
  /\ peak = 0
  /\ streak = NoStreak
  /\ other = None
  /\ ticked = [a |-> FALSE, b |-> FALSE]
  /\ pc = None
  /\ v20 = None
  /\ \E nd \in {V11Fresh.notes_data, V11AllLit}, k \in V11Keys :
       \E e \in ArcEvents(k) :
         v11 = [notes_data |-> nd, event |-> <<e>>, handled |-> FALSE,
                key |-> k]

ArcClick ==
  /\ ~v11.handled
  /\ v11' = [v11_on_click_on_spiral(v11, v11.event[1])
               EXCEPT !.handled = TRUE]
  /\ UNCHANGED <<notes_data, active_notes_list, active_decay_animations,
                 status_text, enable_animation, background, title, peak,
                 now, last, streak, other, ticked, pc, v20>>

NextArc == ArcClick

SpecArc == InitArc /\ [][NextArc]_vars

---------------------------------------------------------------------------
(* The per-key-timer revision under clicks, 'a' and the frames of its
   animations *)

InitV20 ==
  /\ notes_data = [k \in Keys |-> NewNote]
  /\ active_notes_list = <<>>
  /\ active_decay_animations = <<>>
  /\ enable_animation = TRUE
  /\ background = None
  /\ title = TitleFor(enable_animation)
  /\ status_text = <<>>
  /\ now = 0
  /\ last = Event("init", None, "", {})
  /\ peak = 0
  /\ streak = NoStreak
  /\ other = None
  /\ ticked = [a |-> FALSE, b |-> FALSE]
  /\ pc = None
  /\ v11 = None
  /\ \E anim \in BOOLEAN : v20 = V20Fresh(anim)

V20Rest ==
  UNCHANGED <<notes_data, active_notes_list, active_decay_animations,
              status_text, enable_animation, background, title, peak,
              now, last, streak, other, ticked, pc, v11>>

\* button_press_event on the line of at least one key
V20Click(hits) ==
  /\ hits # {}
  /\ Len(v20.animations) < MaxStarted
  /\ v20' = v20_on_click(v20, TRUE, hits)
  /\ V20Rest

\* key_press_event
V20KeyPress(key) ==
  /\ Len(v20.animations) + Len(v20.active_notes_list) <= MaxStarted
  /\ v20' = v20_on_key_press(v20, key)
  /\ V20Rest

\* the timer of one FuncAnimation fires: its next frame is drawn, and
\* after frame n_frames the sequence is used up (repeat=False)
V20Frame(i) ==
  /\ v20.animations[i].running
  /\ LET anim == v20.animations[i]
     IN v20' = [animate_frame(v20, anim.note_key, anim.frame) EXCEPT
                  !.animations[i] =
                    [@ EXCEPT !.frame = @ + 1,
                              !.running = anim.frame < n_frames]]
  /\ V20Rest

NextV20 ==
  \/ \E hits \in Pointers : V20Click(hits)
  \/ V20KeyPress("a")
  \/ \E i \in 1..Len(v20.animations) : V20Frame(i)

SpecV20 == InitV20 /\ [][NextV20]_vars

---------------------------------------------------------------------------
(* The status display applied to one active_notes_list *)

\* the names of all keys of the registry
AllNames ==
  {_get_note_name(o, t) : o \in 0..(n_rotations - 1), t \in 0..11}

\* the lists a sequence of clicks can build: distinct names in any order
Listings ==
  UNION {{l \in [1..n -> AllNames] :
            \A i, j \in 1..n : i # j => l[i] # l[j]} : n \in 0..MaxListed}

\* an instance whose active_notes_list has just been changed
InitStatus ==
  /\ notes_data = [k \in Keys |-> NewNote]
  /\ active_notes_list \in Listings
  /\ active_decay_animations = <<>>
  /\ enable_animation = FALSE
  /\ background = None
  /\ title = TitleFor(enable_animation)
  /\ status_text = <<>>
  /\ now = 0
  /\ last = Event("init", None, "", {})
  /\ peak = 0
  /\ streak = NoStreak
  /\ other = Self
  /\ ticked = [a |-> FALSE, b |-> FALSE]
  /\ pc = None
  /\ v20 = None
  /\ v11 = None

\* the call of _update_status_display that ends the handler
RefreshStatus ==
  /\ last.op = "init"
  /\ status_text' = _update_status_display(Self).status_text
  /\ last' = Event("status", None, "", {})
  /\ UNCHANGED <<notes_data, active_notes_list, active_decay_animations,
                 enable_animation, background, title, peak, now, streak,
                 other, ticked, v11, pc, v20>>

NextStatus == RefreshStatus

SpecStatus == InitStatus /\ [][NextStatus]_vars

---------------------------------------------------------------------------
(* The click handler run statement by statement in the event loop of
   plt.show(), which calls one callback at a time: the timer's callback is
   called between two callbacks, or from inside one at a statement that
   runs the loop itself.  pc holds the line the handler has reached; other
   is an instance that is given every event in one piece when its handler
   returns.  A handler returns within one clock step. *)

\* the handler hands control to the loop once the flag is set, as a
\* plt.pause() between lines 205 and 206 would
PausesAfterFlag(line) == line = 206

\* the statements of _on_click that run the event loop: none of its calls
\* does (draw_idle only asks for a later draw)
RunsEventLoop(line) == FALSE

\* the statement of _on_click at the given line, for the line that
\* contains the event: the instance it leaves and the line that follows
ClickStatement(self, line, note_key, t) ==
  CASE line = 202 ->
         [self |-> _cancel_decay_animation_for_note(self, note_key, TRUE),
          line |-> 204]
    [] line = 204 ->
         IF ~self.notes_data[note_key].highlighted
         THEN [self |-> [self EXCEPT
                           !.notes_data[note_key].highlighted = TRUE],
               line |-> 206]
         ELSE [self |-> [self EXCEPT
                           !.notes_data[note_key].highlighted = FALSE],
               line |-> 220]
    [] line = 206 ->
         [self |-> [self EXCEPT
                      !.notes_data[note_key] =
                        [@ EXCEPT !.r_factor = One, !.alpha = One,
                                  !.visible = TRUE]],
          line |-> 210]
    [] line = 210 ->
         [self |-> [self EXCEPT
                      !.active_notes_list =
                        IF InList(@, NameOf(note_key)) THEN @
                        ELSE Append(@, NameOf(note_key))],
          line |-> 214]
    [] line = 214 ->
         [self |-> IF self.enable_animation
                   THEN _add_note_to_decay_queue(self, note_key, t)
                   ELSE self,
          line |-> 227]
    [] line = 220 ->
         [self |-> [self EXCEPT
                      !.notes_data[note_key] =
                        [@ EXCEPT !.alpha = 0, !.visible = FALSE]],
          line |-> 223]
    [] line = 223 ->
         [self |-> [self EXCEPT
                      !.active_notes_list =
                        ListRemove(@, NameOf(note_key))],
          line |-> 227]
    [] line = 227 ->
         [self |-> _update_status_display(self), line |-> 229]
    [] line = 229 ->
         [self |-> self, line |-> 233]

\* the loop calls _on_click: lines 193-199 find the line under the pointer
ClickEnter(hits) ==
  /\ pc = None
  /\ background # None
  /\ hits # {}
  /\ pc' = [line |-> 202, note_key |-> FirstHit(hits), hits |-> hits]
  /\ last' = Event("click", FirstHit(hits), StateOf(FirstHit(hits)), {})
  /\ UNCHANGED <<notes_data, active_notes_list, active_decay_animations,
                 status_text, enable_animation, background, title, peak,
                 now, streak, other, ticked, v11, v20>>

\* the next statement of the running handler; at the return of line 233
\* the other instance is given the whole click
ClickStep ==
  /\ pc # None
  /\ LET done == ClickStatement(Self, pc.line, pc.note_key, now)
     IN /\ Install(done.self)
        /\ IF done.line = 233
           THEN /\ pc' = None
                /\ other' = _on_click(other, TRUE, pc.hits, now)
           ELSE /\ pc' = [pc EXCEPT !.line = done.line]
                /\ other' = other
  /\ UNCHANGED <<now, last, streak, ticked, v11, v20>>

LoopDraw ==
  /\ pc = None
  /\ background = None
  /\ Install(_on_initial_draw_capture(Self))
  /\ other' = _on_initial_draw_capture(other)
  /\ last' = Event("draw", None, "", {})
  /\ UNCHANGED <<pc, v11, now, streak, ticked, v20>>

LoopToggle ==
  /\ pc = None
  /\ background # None
  /\ Install(_on_key_press(Self, "a", now))
  /\ other' = _on_key_press(other, "a", now)
  /\ last' = Event("a", None, "", {})
  /\ UNCHANGED <<pc, v11, now, streak, ticked, v20>>

\* the timer's callback
LoopTick ==
  /\ IF pc = None THEN TRUE ELSE RunsEventLoop(pc.line)
  /\ background # None
  /\ Install(_update_decay_animations(Self, now))
  /\ other' = _update_decay_animations(other, now)
  /\ last' = Event("tick", None, "", {})
  /\ UNCHANGED <<pc, v11, now, streak, ticked, v20>>

LoopAdvance ==
  /\ pc = None
  /\ now < MaxTime
  /\ now' = now + 1
  /\ last' = Event("wait", None, "", {})
  /\ UNCHANGED <<pc, v11, notes_data, active_notes_list,
                 active_decay_animations, status_text,
                 enable_animation, background, title, peak, streak,
                 other, ticked, v20>>

NextLoop ==
  \/ LoopDraw
  \/ \E hits \in Pointers : ClickEnter(hits)
  \/ ClickStep
  \/ LoopToggle
  \/ LoopTick
  \/ LoopAdvance

SpecLoop == Init /\ [][NextLoop]_vars

---------------------------------------------------------------------------
(* The events of Next on an instance whose notes_data entries carry the
   name and the geometry that _draw_notes_segments stored *)

InitRegistry ==
  /\ notes_data = [k \in Keys |-> _draw_notes_segments[k]]
  /\ active_notes_list = <<>>
  /\ active_decay_animations = <<>>
  /\ enable_animation \in BOOLEAN
  /\ background = None
  /\ title = TitleFor(enable_animation)
  /\ status_text = <<>>
  /\ now = 0
  /\ last = Event("init", None, "", {})
  /\ peak = 0
  /\ streak = NoStreak
  /\ other = None
  /\ ticked = [a |-> FALSE, b |-> FALSE]
  /\ v11 = None
  /\ pc = None
  /\ v20 = None

SpecRegistry == InitRegistry /\ [][Next]_vars

---------------------------------------------------------------------------
(* The construction of the registry: _draw_notes_segments run pass by pass,
   pc holding its loop variables *)

\* __init__ at line 28: notes_data is still the empty dict of line 17
InitBuild ==
  /\ notes_data = <<>>
  /\ active_notes_list = <<>>
  /\ active_decay_animations = <<>>
  /\ enable_animation \in BOOLEAN
  /\ background = None
  /\ title = TitleFor(enable_animation)
  /\ status_text = <<>>
  /\ now = 0
  /\ last = Event("init", None, "", {})
  /\ peak = 0
  /\ streak = NoStreak
  /\ other = None
  /\ ticked = [a |-> FALSE, b |-> FALSE]
  /\ v11 = None
  /\ pc = [octave_idx |-> 0, semitone_idx |-> 0]
  /\ v20 = None

\* one pass of the inner loop, lines 89-106
DrawSegment ==
  /\ pc.octave_idx < n_rotations
  /\ notes_data' = (<<pc.octave_idx, pc.semitone_idx>>
                      :> Segment(pc.octave_idx, pc.semitone_idx))
                     @@ notes_data
  /\ pc' = NextPass(pc.octave_idx, pc.semitone_idx)
  /\ UNCHANGED <<active_notes_list, active_decay_animations, status_text,
                 enable_animation, background, title, peak, now, last,
                 streak, other, ticked, v11, v20>>

NextBuild == DrawSegment

SpecBuild == InitBuild /\ [][NextBuild]_vars

---------------------------------------------------------------------------
(* The window left running: the timer keeps firing, the clock keeps going *)

\* clicks and 'a' while a fade started now can still run out before
\* MaxTime, ticks and the clock at any time
NextRunning ==
  \/ FirstDraw
  \/ now + duration <= MaxTime /\ \E hits \in Pointers : ClickOnKey(hits)
  \/ now + duration <= MaxTime /\ Toggle
  \/ Tick
  \/ Advance

\* the clock does not stop: time.time() (line 255) goes on while the event
\* loop of show() runs
SpecRunning ==
  /\ Init
  /\ [][NextRunning]_vars
  /\ WF_vars(Advance)

\* FuncAnimation's timer goes on firing (lines 235-241): again and again
\* the event handled last is a tick
TicksKeepOccurring == []<>(last.op = "tick")

TypeOK ==
  /\ \A k \in Keys :
       /\ notes_data[k].alpha \in 0..One
       /\ notes_data[k].r_factor \in 0..One
  /\ now \in 0..MaxTime

---------------------------------------------------------------------------
(* Properties *)

Listed(k) == InList(active_notes_list, NameOf(k))

\* C1: the live task list never holds two tasks for one key, neither when
\* a handler has returned nor right after an append inside a handler
AtMostOneTaskPerKey ==
  /\ \A k \in Keys : Cardinality(TasksOf(active_decay_animations, k)) <= 1
  /\ peak <= 1

\* a key that was still fading when the mode was switched on again has been
\* rescheduled by the batch decay and holds one task, started now
RescheduledByBatch ==
  /\ last.op = "a"
  /\ enable_animation
  /\ now > 0
  /\ \E k \in Keys :
       /\ HasTask(k)
       /\ TaskOf(k).start_time = now
       /\ ~notes_data[k].highlighted

\* C2: with auto-decay disabled and a key Sustained, the space key empties
\* active_notes_list and gives every Sustained key a DecayTask
ReleaseAllStartsDecay ==
  [][(last'.op = " " /\ ~enable_animation /\ \E k \in Keys : Sustained(k))
       => /\ active_notes_list' = <<>>
          /\ \A k \in Keys :
               Sustained(k) => TasksOf(active_decay_animations', k) # {}]_vars

\* C3: active_notes_list holds exactly the names of the keys that are
\* Sustained or Decaying
ActiveSetMirrorsState ==
  \A k \in Keys : Listed(k) <=> (Sustained(k) \/ Decaying(k))

\* the Sustained keys release: two keys lit with auto-decay disabled, then
\* the space key
SpaceOnSustained ==
  /\ last.op = " "
  /\ ~enable_animation
  /\ \A k \in Keys : Sustained(k)

\* a fade started with auto-decay enabled has run out and a tick has
\* finished it
FadeFinishedByTick ==
  /\ last.op = "tick"
  /\ \E d \in last.done : Idle(d.note_key)

\* C4 as stated: two successive clicks on a key that was Idle leave it
\* Idle with alpha 0 and no DecayTask, whatever the auto-decay mode
DoubleClickReturnsToIdle ==
  (last.op = "click" /\ streak.n = 2)
    => Idle(streak.key) /\ notes_data[streak.key].alpha = 0

\* C4 amended: two successive clicks on a key that was Idle leave it Idle
\* with alpha 0 and no DecayTask when auto-decay is disabled; when it is
\* enabled the second click strikes the key again: lit, alpha 1, radial
\* scale 1 and exactly one DecayTask, started at the second click
DoubleClickTogglesOrRestrikes ==
  (last.op = "click" /\ streak.n = 2)
    => LET k == streak.key
       IN IF enable_animation
          THEN /\ notes_data[k].highlighted
               /\ notes_data[k].alpha = One
               /\ notes_data[k].r_factor = One
               /\ Cardinality(TasksOf(active_decay_animations, k)) = 1
               /\ TaskOf(k).start_time = now
          ELSE Idle(k) /\ notes_data[k].alpha = 0

\* the second click has un-highlighted a key the first click had Sustained
SecondClickOnSustained ==
  /\ last.op = "click"
  /\ streak.n = 2
  /\ last.was = "Sustained"
  /\ ~enable_animation

\* C5: with auto-decay enabled, a click on a key that has a DecayTask leaves
\* it lit with alpha 1 and radial scale 1 and with exactly one task, started
\* at the click; a tick that follows at once writes the values of progress 0
RestrikeRestartsFade ==
  [][\A k \in Keys :
       /\ (last'.op = "click" /\ last'.key = k /\ enable_animation
           /\ HasTask(k))
            => /\ notes_data'[k].highlighted
               /\ notes_data'[k].alpha = One
               /\ notes_data'[k].r_factor = One
               /\ \E i \in 1..Len(active_decay_animations') :
                    /\ TasksOf(active_decay_animations', k) = {i}
                    /\ active_decay_animations'[i].start_time = now
       /\ (last.op = "click" /\ last.key = k /\ last.was = "Decaying"
           /\ enable_animation /\ last'.op = "tick")
            => /\ notes_data'[k].alpha = One
               /\ notes_data'[k].r_factor = One
               /\ \E i \in 1..Len(active_decay_animations') :
                    /\ TasksOf(active_decay_animations', k) = {i}
                    /\ active_decay_animations'[i].start_time = now]_vars

\* a key whose fade had begun earlier has been clicked again
Restruck ==
  /\ last.op = "click"
  /\ last.was = "Decaying"
  /\ enable_animation
  /\ now > 0
  /\ TaskOf(last.key).start_time = now

\* C6: a tick removes every task whose elapsed time has reached its
\* duration and leaves its key Idle, alpha 0, hidden; younger tasks stay
TickCompletesExpired ==
  [][last'.op = "tick"
       => \A i \in 1..Len(active_decay_animations) :
            LET d == active_decay_animations[i]
                k == d.note_key
            IN IF now - d.start_time >= d.duration
               THEN /\ ~InList(active_decay_animations', d)
                    /\ TasksOf(active_decay_animations', k) = {}
                    /\ ~notes_data'[k].highlighted
                    /\ notes_data'[k].alpha = 0
                    /\ ~notes_data'[k].visible
               ELSE InList(active_decay_animations', d)]_vars

\* a tick has finished a task exactly duration after its start and has
\* kept a younger one
FinishedOnTheDot ==
  /\ last.op = "tick"
  /\ \E d \in last.done : now - d.start_time = d.duration
  /\ \E k \in Keys : HasTask(k) /\ now - TaskOf(k).start_time < duration

\* C7: a key is Idle exactly when its alpha is 0, and a Sustained key has
\* alpha 1 and radial scale 1
IdleIffTransparent ==
  \A k \in Keys :
    /\ Idle(k) <=> notes_data[k].alpha = 0
    /\ Sustained(k)
         => notes_data[k].alpha = One /\ notes_data[k].r_factor = One

\* one fade has just been finished by a tick, next to a Sustained key and
\* to a key that fades on although the mode is off
IdleBesideSustained ==
  /\ last.op = "tick"
  /\ \E d \in last.done :
       Idle(d.note_key) /\ notes_data[d.note_key].r_factor < One
  /\ \E k \in Keys : Sustained(k)

\* C8: for a task that a tick keeps, the tick writes an alpha and a radial
\* factor no greater than the key had, alpha in [0,1] and the factor in
\* [decay_end_factor, 1]
FadeNeverRises ==
  [][last'.op = "tick"
       => \A i \in 1..Len(active_decay_animations) :
            LET d == active_decay_animations[i]
                k == d.note_key
            IN InList(active_decay_animations', d)
                 => /\ notes_data'[k].alpha <= notes_data[k].alpha
                    /\ notes_data'[k].r_factor <= notes_data[k].r_factor
                    /\ notes_data'[k].alpha \in 0..One
                    /\ notes_data'[k].r_factor \in d.decay_end_factor..One]_vars

\* a tick has lowered the alpha and the radius of a live fade
FadedPartly ==
  /\ last.op = "tick"
  /\ \E k \in Keys :
       /\ HasTask(k)
       /\ notes_data[k].alpha < One
       /\ notes_data[k].r_factor < One

\* C9: after a tick every live task's key has alpha = 1 - p and radial
\* factor = 1 - p*(1 - decay_end_factor), p = (now - start_time)/duration;
\* halfway through the fade that is alpha 1/2 and radial factor 3/4
TickWritesLinearFade ==
  last.op = "tick"
    => \A k \in Keys :
         HasTask(k)
           => LET d == TaskOf(k)
                  elapsed == now - d.start_time
              IN /\ elapsed < d.duration
                 /\ notes_data[k].alpha * d.duration
                      = One * (d.duration - elapsed)
                 /\ notes_data[k].r_factor * d.duration
                      = One * d.duration
                          - elapsed * (One - d.decay_end_factor)
                 /\ 2 * elapsed = d.duration
                      => /\ 2 * notes_data[k].alpha = One
                         /\ 4 * notes_data[k].r_factor = 3 * One

\* a tick has fallen a quarter of a second after the click
TickAtHalfTime ==
  /\ last.op = "tick"
  /\ enable_animation
  /\ \E k \in Keys :
       /\ HasTask(k)
       /\ 2 * (now - TaskOf(k).start_time) = duration
       /\ notes_data[k].highlighted

\* what a frame shows of a key
Shown(note) ==
  [highlighted |-> note.highlighted, alpha |-> note.alpha,
   visible |-> note.visible,
   r_factor |-> IF note.visible THEN note.r_factor ELSE One]

\* C10: two instances given the same clicks at the same times and ticked
\* on different schedules agree, once both have ticked at the present
\* time, on every key's alpha, radius and visibility and on the live tasks;
\* and an instance that has ticked holds no task whose duration has elapsed
TickRateIndependent ==
  /\ (ticked.a /\ ticked.b)
       => /\ \A k \in Keys :
               Shown(notes_data[k]) = Shown(other.notes_data[k])
          /\ active_decay_animations = other.active_decay_animations
  /\ ticked.a
       => \A i \in 1..Len(active_decay_animations) :
            now - active_decay_animations[i].start_time
              < active_decay_animations[i].duration
  /\ ticked.b
       => \A i \in 1..Len(other.active_decay_animations) :
            now - other.active_decay_animations[i].start_time
              < other.active_decay_animations[i].duration

\* one instance was ticked during the fade, the other only now, when the
\* fade is over, and both show the key gone
TickedOftenAndOnce ==
  /\ ticked.a
  /\ ticked.b
  /\ enable_animation
  /\ \E k \in Keys :
       /\ InList(active_notes_list, NameOf(k))
       /\ Idle(k)
       /\ notes_data[k].r_factor # other.notes_data[k].r_factor

\* the queue entries of one key
EntriesOf(q, k) == {q[i] : i \in TasksOf(q, k)}

\* the instance with every queue entry but those of key k taken away
AloneWith(k) ==
  [Self EXCEPT
     !.active_decay_animations = SelectSeq(@, LAMBDA d : d.note_key = k)]

\* C11: a click on a key (lighting, un-highlighting or re-striking it, with
\* the cancellation that goes with it) leaves every other key's line state
\* and queue entry as they were; a tick, which completes the expired tasks,
\* gives every key the line state and the queue entry it would have if the
\* other keys had no task at all
TasksIndependent ==
  [][/\ last'.op = "click"
          => \A j \in Keys \ {last'.key} :
               /\ notes_data'[j] = notes_data[j]
               /\ EntriesOf(active_decay_animations', j)
                    = EntriesOf(active_decay_animations, j)
     /\ last'.op = "tick"
          => \A j \in Keys :
               LET alone == _update_decay_animations(AloneWith(j), now)
               IN /\ notes_data'[j] = alone.notes_data[j]
                  /\ EntriesOf(active_decay_animations', j)
                       = EntriesOf(alone.active_decay_animations, j)]_vars

\* a fading key has been struck again while another key, struck earlier,
\* fades on with the task it had
ClickBesideFade ==
  /\ last.op = "click"
  /\ last.was = "Decaying"
  /\ \E j \in Keys \ {last.key} :
       HasTask(j) /\ TaskOf(j).start_time < now

\* C12: a pointer event outside the axes, or inside them on no key's line,
\* changes no key's logical or visual state, nor active_notes_list, the
\* queue or the auto-decay mode
StrayClickChangesNothing ==
  [][(last'.op = "click" /\ last'.key = None)
       => UNCHANGED <<notes_data, active_notes_list,
                      active_decay_animations, enable_animation, v20>>]_vars

\* a click has fallen outside every line while one key was Sustained or
\* listed and another was fading
StrayClickDuringFade ==
  /\ last.op = "click"
  /\ last.key = None
  /\ active_notes_list # <<>>
  /\ \E k \in Keys : HasTask(k) /\ notes_data[k].alpha < One

\* C13: a pointer of the coordinate-based hit tester with radius below 1
\* (radii between 0.5 and 1 among them) or at or above 2^n_rotations
\* toggles no segment
OutOfRangeRadiusHitsNothing ==
  [][(~v11.handled /\ v11'.handled
      /\ (\/ v11.event[1].ydata < RadiusSteps
          \/ v11.event[1].ydata >= Rim * RadiusSteps))
       => v11'.notes_data = v11.notes_data]_vars

\* a left click inside the axes at a radius between 0.5 and 1 was handled
ClickBelowInnermost ==
  /\ v11.handled
  /\ v11.event[1].inaxes
  /\ v11.event[1].button = 1
  /\ 2 * v11.event[1].ydata > RadiusSteps
  /\ v11.event[1].ydata < RadiusSteps

\* the segment's state after a toggle
Toggled(note) ==
  [highlighted |-> ~note.highlighted,
   alpha |-> IF note.highlighted THEN 0 ELSE One]

\* C14: a left click inside the axes with 1 <= radius < 2^n_rotations and
\* any angle toggles exactly the segment (floor(log2(radius)),
\* floor(normalizedAngle / (2*pi/12))), normalizedAngle = angle mod 2*pi,
\* and the pitch class lies in 0..11
ResolvesToFloorPair ==
  [][(/\ ~v11.handled /\ v11'.handled
      /\ v11.event[1].inaxes /\ v11.event[1].button = 1
      /\ v11.event[1].ydata >= RadiusSteps
      /\ v11.event[1].ydata < Rim * RadiusSteps)
       => LET e == v11.event[1]
              octave == CHOOSE o \in 0..(n_rotations - 1) :
                          /\ (2 ^ o) * RadiusSteps <= e.ydata
                          /\ e.ydata < (2 ^ (o + 1)) * RadiusSteps
              normalizedAngle ==
                CHOOSE a \in 0..(TwoPi - 1) :
                  \E m \in -2..2 : e.xdata = a + m * TwoPi
              pitch == CHOOSE c \in 0..11 :
                         /\ c * AngleSteps <= normalizedAngle
                         /\ normalizedAngle < (c + 1) * AngleSteps
          IN v11'.notes_data =
               [v11.notes_data EXCEPT ![<<octave, pitch>>] = Toggled(@)]]_vars

\* a left click at radius 2 and an angle just below 0 has lit B2 and
\* nothing else
ClickOnOctaveBoundary ==
  /\ v11.handled
  /\ v11.event[1].xdata = -1
  /\ v11.event[1].ydata = 2 * RadiusSteps
  /\ \A k \in V11Keys : v11.notes_data[k].highlighted <=> k = <<1, 11>>

\* C15: the frame a tick presents holds every line whose alpha is greater
\* than 0, the Sustained ones as well as the Decaying ones
FrameShowsEveryLitLine ==
  [][last'.op = "tick"
       => \A k \in Keys :
            notes_data'[k].alpha > 0 => k \in Blitted(Self, now)]_vars

\* a tick has presented a frame while a key was Sustained
TickWhileSustained ==
  /\ last.op = "tick"
  /\ ~enable_animation
  /\ \E k \in Keys : Sustained(k) /\ notes_data[k].visible

\* C16: the cached background, captured at the first draw and recaptured
\* at every toggle, never holds the line of a key, whatever clicks,
\* toggles, redraws and ticks went before
BackgroundIsClean ==
  background # None => background[1].lines = {}

\* the background has been recaptured by a toggle while a key was lit, and
\* the key's line is visible again
RecapturedWhileLit ==
  /\ last.op = "a"
  /\ background # None
  /\ \E k \in Keys : notes_data[k].highlighted /\ notes_data[k].visible

\* C17: at every tick the cached background shows the title of the present
\* mode: a toggle recaptures it after the title has changed
SnapshotTitleIsCurrent ==
  (last.op = "tick" /\ background # None)
    => background[1].title = TitleFor(enable_animation)

\* C18: in every state in which the background can be recaptured,
\* _recreate_background returns with every key's highlighted flag, alpha,
\* radial scale and visibility as they were when it was called
RecaptureKeepsKeyState ==
  background # None => _recreate_background(Self).notes_data = notes_data

\* the pitch-class index of a name: C = 0, C# = 1, ..., B = 11
PitchClass(name) == (CHOOSE i \in 1..12 : semitone_names[i] = name[1]) - 1

\* C19: the status text holds the names of active_notes_list, each once,
\* ordered by octave and then by pitch-class index, whatever the content
\* and the order of the list
StatusOrderedByPitch ==
  last.op = "status"
    => /\ Len(status_text) = Len(active_notes_list)
       /\ \A i \in 1..Len(active_notes_list) :
            InList(status_text, active_notes_list[i])
       /\ \A i, j \in 1..Len(status_text) :
            i < j
              => \/ status_text[i][2] < status_text[j][2]
                 \/ /\ status_text[i][2] = status_text[j][2]
                    /\ PitchClass(status_text[i]) < PitchClass(status_text[j])

\* C20: a click on an Idle key leaves it lit with alpha 1 and radial scale
\* 1 and its name once in active_notes_list; with auto-decay enabled the
\* click itself appends exactly one DecayTask for the key, started at the
\* click, and with auto-decay disabled the queue is left as it was
IdleClickLights ==
  [][\A k \in Keys :
       (last'.op = "click" /\ last'.key = k /\ Idle(k))
         => /\ notes_data'[k].highlighted
            /\ notes_data'[k].alpha = One
            /\ notes_data'[k].r_factor = One
            /\ Cardinality({i \in 1..Len(active_notes_list') :
                              active_notes_list'[i] = NameOf(k)}) = 1
            /\ IF enable_animation
               THEN active_decay_animations'
                      = Append(active_decay_animations,
                               [note_key |-> k, start_time |-> now,
                                duration |-> duration,
                                decay_end_factor |-> decay_end_factor])
               ELSE active_decay_animations'
                      = active_decay_animations]_vars

\* an Idle key has been struck with auto-decay enabled, and its fade is
\* scheduled although no tick has run since
IdleKeyStruck ==
  /\ last.op = "click"
  /\ last.was = "Idle"
  /\ enable_animation
  /\ now > 0
  /\ HasTask(last.key)
  /\ TaskOf(last.key).start_time = now

\* C21: with auto-decay disabled, a click on a Sustained key leaves it Idle
\* at once: not highlighted, alpha 0, hidden, its name gone from
\* active_notes_list and no DecayTask for it
SustainedClickClears ==
  (last.op = "click" /\ last.was = "Sustained" /\ ~enable_animation)
    => /\ Idle(last.key)
       /\ notes_data[last.key].alpha = 0
       /\ ~notes_data[last.key].visible
       /\ ~Listed(last.key)

\* a Sustained key has been clicked off while another one stays Sustained
ClickedOffBesideSustained ==
  /\ last.op = "click"
  /\ last.was = "Sustained"
  /\ ~enable_animation
  /\ Idle(last.key)
  /\ \E j \in Keys \ {last.key} : Sustained(j) /\ Listed(j)

\* C22: with auto-decay disabled, a click on an Idle key while
\* active_notes_list is empty leaves the key Sustained and the list holding
\* its name alone; a click on a second Idle key while the list holds the
\* name of one Sustained key leaves both Sustained, with alpha 1 and radial
\* scale 1, and the list holding exactly the two names; and a tick leaves
\* every key that has no DecayTask with the flag, alpha, radius and
\* visibility it had, without a task and listed as before
SustainedOutlastsTicks ==
  [][/\ \A k \in Keys :
          (/\ last'.op = "click" /\ last'.key = k /\ ~enable_animation
           /\ Idle(k) /\ active_notes_list = <<>>)
            => /\ active_notes_list' = <<NameOf(k)>>
               /\ notes_data'[k].highlighted
               /\ TasksOf(active_decay_animations', k) = {}
     /\ \A k \in Keys : \A j \in Keys \ {k} :
          (/\ last'.op = "click" /\ last'.key = k /\ ~enable_animation
           /\ Idle(k) /\ Sustained(j)
           /\ active_notes_list = <<NameOf(j)>>)
            => /\ active_notes_list' = <<NameOf(j), NameOf(k)>>
               /\ \A n \in {j, k} :
                    /\ notes_data'[n].highlighted
                    /\ TasksOf(active_decay_animations', n) = {}
                    /\ notes_data'[n].alpha = One
                    /\ notes_data'[n].r_factor = One
                    /\ notes_data'[n].visible
     /\ (last'.op = "tick" /\ ~enable_animation)
          => \A k \in Keys :
               ~HasTask(k)
                 => /\ notes_data'[k] = notes_data[k]
                    /\ TasksOf(active_decay_animations', k) = {}
                    /\ InList(active_notes_list', NameOf(k)) <=> Listed(k)
    ]_vars

\* two keys were lit one after the other with auto-decay disabled, and a
\* tick that came a fade's duration or more after the start finds both
\* Sustained and the list holding the two names
BothSustainedAfterTick ==
  /\ last.op = "tick"
  /\ ~enable_animation
  /\ now >= duration
  /\ \E j, k \in Keys :
       /\ j # k
       /\ active_notes_list = <<NameOf(j), NameOf(k)>>
       /\ \A n \in {j, k} :
            Sustained(n) /\ notes_data[n].alpha = One

\* C23: the space key pressed while auto-decay is enabled changes no key's
\* flag, alpha, radius or visibility, no entry of the decay queue and not
\* active_notes_list
SpaceIgnoredWhenAuto ==
  [][(last'.op = " " /\ enable_animation)
       => UNCHANGED <<notes_data, active_decay_animations,
                      active_notes_list, enable_animation, v20>>]_vars

\* the space key was pressed with auto-decay enabled while a lit key was
\* partly faded and listed
SpaceDuringFade ==
  /\ last.op = " "
  /\ enable_animation
  /\ \E k \in Keys :
       /\ HasTask(k)
       /\ notes_data[k].highlighted
       /\ notes_data[k].alpha < One
       /\ Listed(k)

\* C29: with auto-decay disabled, a click on a key that has a DecayTask
\* leaves it Sustained: the task cancelled and none scheduled, the key lit
\* and visible with alpha 1 and radial scale 1, its name once in
\* active_notes_list
DecayingClickSustains ==
  (last.op = "click" /\ last.was = "Decaying" /\ ~enable_animation)
    => /\ Sustained(last.key)
       /\ notes_data[last.key].alpha = One
       /\ notes_data[last.key].r_factor = One
       /\ notes_data[last.key].visible
       /\ Cardinality({i \in 1..Len(active_notes_list) :
                         active_notes_list[i] = NameOf(last.key)}) = 1

\* a fading key has been clicked after auto-decay was switched off, while
\* another key fades on
FadeHaltedByClick ==
  /\ last.op = "click"
  /\ last.was = "Decaying"
  /\ ~enable_animation
  /\ Sustained(last.key)
  /\ \E j \in Keys \ {last.key} : HasTask(j) /\ TaskOf(j).start_time < now

\* C30: the 'a' key pressed while auto-decay is disabled and
\* active_notes_list is not empty switches auto-decay on, empties the list
\* and leaves every key that was highlighted visible with alpha 1 and
\* radial scale 1 and with exactly one DecayTask, started at the key press;
\* no key is Sustained when the handler returns
ToggleOnReleasesAll ==
  [][(last'.op = "a" /\ ~enable_animation /\ active_notes_list # <<>>)
       => /\ enable_animation'
          /\ active_notes_list' = <<>>
          /\ \A k \in Keys :
               notes_data[k].highlighted
                 => /\ notes_data'[k].alpha = One
                    /\ notes_data'[k].r_factor = One
                    /\ notes_data'[k].visible
                    /\ \E i \in 1..Len(active_decay_animations') :
                         /\ TasksOf(active_decay_animations', k) = {i}
                         /\ active_decay_animations'[i].start_time = now
          /\ \A k \in Keys :
               ~(/\ notes_data'[k].highlighted
                 /\ TasksOf(active_decay_animations', k) = {})]_vars

\* auto-decay has been switched on over a Sustained key and a key that was
\* fading already: the list is empty and both fades start now
ToggledOnOverLitKeys ==
  /\ last.op = "a"
  /\ enable_animation
  /\ now > 0
  /\ active_notes_list = <<>>
  /\ \A k \in Keys : HasTask(k) /\ TaskOf(k).start_time = now
  /\ \E k \in Keys : notes_data[k].highlighted
  /\ \E k \in Keys : ~notes_data[k].highlighted

\* the keys an octave has in the registry
KeysOfOctave(o) == {k \in DOMAIN notes_data : k[1] = o}

\* the first and the last angle of a segment
theta_start(note) == At(note.base_theta, 0)

theta_end(note) == At(note.base_theta, note.base_theta.num - 1)

\* the fraction x is the whole number n
Is(x, n) == x.num = n * x.den

\* C25: the segment of key (o, p) starts at o*2*pi + p*(2*pi/12) and ends
\* 2*pi/12 further on; for p in 0..10 its end angle is the start angle of
\* key (o, p+1); and the ranges [start, end) of the twelve keys of an octave
\* hold every angle of the turn [o*2*pi, (o+1)*2*pi) exactly once
SegmentsTileTheTurn ==
  /\ \A k \in DOMAIN notes_data :
       LET s == theta_start(notes_data[k])
           e == theta_end(notes_data[k])
           next == <<k[1], k[2] + 1>>
       IN /\ 12 * s.num = (12 * k[1] + k[2]) * TwoPi * s.den
          /\ 12 * (e.num * s.den - s.num * e.den) = TwoPi * s.den * e.den
          /\ (k[2] <= 10 /\ next \in DOMAIN notes_data)
               => /\ ~Less(e, theta_start(notes_data[next]))
                  /\ ~Less(theta_start(notes_data[next]), e)
  /\ \A o \in 0..(n_rotations - 1) :
       Cardinality(KeysOfOctave(o)) = 12
         => \A a \in (o * TwoPi)..((o + 1) * TwoPi - 1) :
              Cardinality({k \in KeysOfOctave(o) :
                             /\ ~Less([num |-> a, den |-> 1],
                                      theta_start(notes_data[k]))
                             /\ Less([num |-> a, den |-> 1],
                                     theta_end(notes_data[k]))}) = 1

\* the twelve segments of the last octave have been drawn
LastOctaveDrawn ==
  /\ pc.octave_idx = n_rotations
  /\ Cardinality(KeysOfOctave(n_rotations - 1)) = 12
  /\ Is(theta_end(notes_data[<<n_rotations - 1, 10>>]),
        (n_rotations - 1) * TwoPi + 11 * AngleSteps)

\* the first and the last radius of a segment, as exponents of two
r_start(note) == RadiusAt(note.base_r, 0)

r_end(note) == RadiusAt(note.base_r, note.base_r.theta.num - 1)

\* C26: every segment's radius at the start of its angular range is
\* strictly less than its radius at the end; the segment one turn further
\* out starts at twice the radius; the first key of octave o starts at
\* radius 2^o, and key (2, 0) at the angle 4*pi with radius 4
SpiralExpands ==
  /\ \A k \in DOMAIN notes_data :
       LET note == notes_data[k]
           outer == <<k[1] + 1, k[2]>>
       IN /\ Less(r_start(note), r_end(note))
          /\ k[2] = 0 => Is(r_start(note), k[1])
          /\ outer \in DOMAIN notes_data
               => LET x == r_start(note)
                      y == r_start(notes_data[outer])
                  IN y.num * x.den = (x.num + x.den) * y.den
  /\ <<2, 0>> \in DOMAIN notes_data
       => LET note == notes_data[<<2, 0>>]
          IN /\ Is(theta_start(note), 2 * TwoPi)
             /\ r_start(note).num % r_start(note).den = 0
             /\ 2 ^ (r_start(note).num \div r_start(note).den) = 4

\* the segment of C3 has just been drawn, two turns out
C3Drawn ==
  /\ pc = [octave_idx |-> 2, semitone_idx |-> 1]
  /\ <<2, 0>> \in DOMAIN notes_data
  /\ Is(r_start(notes_data[<<2, 0>>]), 2)
  /\ Less(r_start(notes_data[<<1, 0>>]), r_start(notes_data[<<2, 0>>]))

\* C27: the stored name of key (octave_idx, semitone_idx) reads as the
\* semitone name followed by the digits of octave_idx + 1, "C3" for key
\* (2, 0), and two distinct keys of the registry never read the same
NamesIdentifyKeys ==
  /\ \A k \in DOMAIN notes_data :
       Rendered(notes_data[k].name)
         = CharsOf(semitone_names[k[2] + 1]) \o str(k[1] + 1)
  /\ <<2, 0>> \in DOMAIN notes_data
       => Rendered(notes_data[<<2, 0>>].name) = <<"C", "3">>
  /\ \A k1, k2 \in DOMAIN notes_data :
       k1 # k2
         => Rendered(notes_data[k1].name) # Rendered(notes_data[k2].name)

\* every key of the registry has been named, sharps and naturals of all
\* octaves among them
AllKeysNamed ==
  /\ pc.octave_idx = n_rotations
  /\ Cardinality({Rendered(notes_data[k].name) : k \in DOMAIN notes_data})
       = 12 * n_rotations
  /\ Rendered(notes_data[<<4, 1>>].name) = <<"C", "#", "5">>

\* C28: the registry built at startup has one entry for every pair
\* (octave, pitch class) with octave in 0..n_rotations-1 and pitch class in
\* 0..11 and no other; and whatever clicks, key presses and ticks have
\* run, notes_data has the entries it had, each with the name, base_theta
\* and base_r that were stored at startup
RegistryIsFixed ==
  /\ DOMAIN _draw_notes_segments = (0..(n_rotations - 1)) \X (0..11)
  /\ DOMAIN notes_data = Keys
  /\ \A k \in Keys :
       /\ notes_data[k].name = _draw_notes_segments[k].name
       /\ notes_data[k].base_theta = _draw_notes_segments[k].base_theta
       /\ notes_data[k].base_r = _draw_notes_segments[k].base_r

\* a tick has drawn a key's line at a reduced radius, after the mode was
\* switched and while another key is lit
RadiusScaledByTick ==
  /\ last.op = "tick"
  /\ ~enable_animation
  /\ \E k \in Keys :
       /\ HasTask(k)
       /\ notes_data[k].r_factor < One
       /\ notes_data[k].base_r = _draw_notes_segments[k].base_r
  /\ \E k \in Keys : Sustained(k)

\* C24: the instance a tick finds is the one in which every click made so
\* far has been applied whole (flag, alpha and radius, active_notes_list,
\* queue entry cancelled or scheduled, status text) and no click in part:
\* no handler is under way when the tick runs, and whenever _on_click has
\* returned its statements have had the effect of the whole handler
TickSeesWholeClicks ==
  [][/\ last'.op = "tick" => (pc = None /\ Self = other)
     /\ pc' = None => Self' = other']_vars

\* a tick has run at the very clock step of a click that struck a key, and
\* found it with its fade scheduled and at full brightness
TickRightAfterClick ==
  /\ last.op = "tick"
  /\ pc = None
  /\ now > 0
  /\ \E k \in Keys :
       /\ HasTask(k)
       /\ TaskOf(k).start_time = now
       /\ notes_data[k].highlighted
       /\ notes_data[k].alpha = One
       /\ Listed(k)

\* C33: whenever auto-decay is enabled, every key whose highlighted flag is
\* True has a live task in the queue: no key is Sustained while auto-decay
\* is on
AutoDecayLeavesNoneSustained ==
  enable_animation
    => \A k \in Keys : notes_data[k].highlighted => HasTask(k)

\* auto-decay has just been switched on over a key that was Sustained, and
\* the key is highlighted with a fade scheduled at that instant
SustainedCaughtByToggle ==
  /\ last.op = "a"
  /\ enable_animation
  /\ \E k \in Keys :
       /\ notes_data[k].highlighted
       /\ notes_data[k].alpha = One
       /\ HasTask(k)
       /\ TaskOf(k).start_time = now
       /\ ~Listed(k)

\* C34: every key that has a live task in the queue has its highlighted
\* flag set to True
FadingKeyIsFlagged ==
  \A k \in Keys : HasTask(k) => notes_data[k].highlighted

\* C36: active_notes_list never holds the same name twice, and every name
\* in it is the name of a key of the registry
ListHoldsDistinctRegisteredNames ==
  /\ \A i, j \in 1..Len(active_notes_list) :
       active_notes_list[i] = active_notes_list[j] => i = j
  /\ \A i \in 1..Len(active_notes_list) :
       \E k \in DOMAIN notes_data : active_notes_list[i] = NameOf(k)

\* a click has struck again a key whose name a finished fade had left in
\* the list, beside the name of another key
StaleNameStruckAgain ==
  /\ last.op = "click"
  /\ Len(active_notes_list) = 2
  /\ \E k \in Keys :
       /\ last.key = k
       /\ last.was = "Idle"
       /\ notes_data[k].highlighted
       /\ active_notes_list[1] = NameOf(k)

\* C31: every key that is Decaying is eventually Idle with alpha 0 and no
\* task in the queue, or has been clicked in the meantime, when ticks keep
\* occurring and the clock keeps advancing; a fade restarted by a mode
\* toggle runs out as well
DecayingLeadsToIdle ==
  TicksKeepOccurring
    => \A k \in Keys :
         HasTask(k)
           ~> \/ Idle(k) /\ notes_data[k].alpha = 0
              \/ last.op = "click" /\ last.key = k

\* a tick has finished the fade of a key that started at the last moment
\* of input after an earlier one, and the key is Idle and transparent
FadeRanOutPastInput ==
  /\ last.op = "tick"
  /\ now = MaxTime
  /\ now > duration
  /\ \E d \in last.done :
       /\ Idle(d.note_key)
       /\ notes_data[d.note_key].alpha = 0
       /\ d.start_time + duration = now

\* C35: switching auto-decay off with 'a' leaves the queue as it was, no
\* task cancelled, added or given a new start time; and, ticks going on,
\* every key that has a task when the mode has been switched off is
\* eventually Idle with alpha 0, unless it is clicked in the meantime
ToggleOffKeepsFades ==
  /\ [][(enable_animation /\ ~enable_animation')
          => active_decay_animations' = active_decay_animations]_vars
  /\ TicksKeepOccurring
       => \A k \in Keys :
            (last.op = "a" /\ ~enable_animation /\ HasTask(k))
              ~> \/ Idle(k) /\ notes_data[k].alpha = 0
                 \/ last.op = "click" /\ last.key = k

\* with auto-decay off, a tick has finished the fade that a click had
\* started before the mode was switched, and left every key Idle
FadeFinishedWhileOff ==
  /\ last.op = "tick"
  /\ ~enable_animation
  /\ active_notes_list # <<>>
  /\ \E d \in last.done :
       /\ Idle(d.note_key)
       /\ notes_data[d.note_key].alpha = 0
       /\ d.start_time + duration = now
  /\ \A k \in Keys : Idle(k)

\* C37: for every key k of the registry, a left click placed on k's own
\* arc, at an angle strictly between start_angle_for_note and
\* end_angle_for_note and at the radius exp(b * angle), toggles k and
\* leaves every other key as it was
ArcPointResolvesToItsKey ==
  [][(~v11.handled /\ v11'.handled)
       => v11'.notes_data =
            [v11.notes_data EXCEPT ![v11.key] = Toggled(@)]]_vars

\* a click on the arc of the last key of the outermost octave, the angle
\* given with its four whole turns, has lit that key and no other
LastArcClicked ==
  /\ v11.handled
  /\ v11.key = <<n_rotations - 1, 11>>
  /\ v11.event[1].xdata > start_angle_for_note(v11.key)
  /\ Less([num |-> n_rotations - 1, den |-> 1], v11.event[1].ydata)
  /\ \A k \in V11Keys : v11.notes_data[k].highlighted <=> k = v11.key

\* C32: in the per-key-timer revision, after any clicks and 'a' presses,
\* at most one fade animation of a key is running, and
\* current_decay_animations holds for the key that running animation and
\* nothing else: no earlier fade of the key is left running beside a new
\* one, and no entry is missing for a fade that runs
OneRunningFadePerKey ==
  \A k \in Keys :
    /\ Cardinality(RunningOf(v20, k)) <= 1
    /\ \A i \in RunningOf(v20, k) : v20.current_decay_animations[k] = <<i>>
    /\ v20.current_decay_animations[k] # None
         => v20.current_decay_animations[k][1] \in RunningOf(v20, k)

====
